---- MODULE Spec2Model ----
(***************************************************************************)
(* A model of the client-side glue of sql-rooms-tigzig: the persisted      *)
(* session store (partialize / migrate), the schema cache and the prompt   *)
(* table list, the database-file import, and the two export routines.      *)
(* Each subsystem has its own specification over the shared variables.     *)
(***************************************************************************)
EXTENDS Integers, Sequences, FiniteSets, TLC

VARIABLES
    \* ---- persisted session store (store.ts) ----
    storage,            \* the JSON blob under the local-storage key
    sessions,           \* state.config.ai.sessions
    currentSessionId,   \* state.config.ai.currentSessionId ("" is the empty string)
    phase,              \* "init" (store not yet rehydrated), "mount", "ready"
    saved,              \* the blob was written by partialize since the last load
    created             \* number of sessions created so far (fresh ids, clock)

VARIABLES
    \* ---- the embedded engine and what the application caches of it ----
    catalog,            \* tables of the primary catalog: [schema, tableName, rowCount]
    schemas,            \* schemas of the primary catalog other than main
    vfs,                \* names of the files in the engine's virtual filesystem
    attached,           \* names of the attached secondary catalogs
    tables,             \* state.db.tables, the schema cache
    enrichedTables,     \* window.__enrichedTables: [set, tables]
    enriching,          \* snapshots handed to enrichTablesWithSampleRows, in flight
    effectDue,          \* `tables` changed and the enhancement effect has not run yet
    prompt,             \* the AVAILABLE TABLES list of the prompt being answered
    boot,               \* start-up steps done: "dataset", "version"
    storedVersion,      \* localStorage 'default-dataset-version'
    stamp,              \* the clock: timestamps drawn for file names so far
    op                  \* the handler that ran last and how it ended: [name, ok]

VARIABLES
    \* ---- the data sources panel and its dialogs ----
    panel,              \* the useState flags of DataSourcesPanel and of its modals
    report              \* what the last handler met and showed: [raised, message, shown]

VARIABLES
    \* ---- one file handed to the file picker or the drop zone ----
    file,               \* the File: [name, text, columns]
    lastLoad,           \* the last run's file.text() and connector.loadFile call
    columns             \* the column names of the table loaded from the file

VARIABLES
    \* ---- the download of the whole database ----
    archive             \* the tables whose data is in the last ZIP ({}: no ZIP)

VARIABLES
    \* ---- the model of a session (CustomSessionControls, ModelSelector) ----
    processedSessionIds,    \* the useState Set of CustomSessionControls
    userModel               \* [id, model]: the model the user last selected in a session

VARIABLES
    \* ---- the OpenAI proxy (serverless function) ----
    req,                \* the request being answered: [method, authorization, path]
    res,                \* the answer: [status, body]
    fetched             \* the upstream calls made for it: [url, authorization]

storeVars == <<storage, sessions, currentSessionId, phase, saved, created>>

engineVars == <<catalog, schemas, vfs, attached>>

cacheVars == <<tables, enrichedTables, enriching, effectDue, prompt>>

fileVars == <<file, lastLoad, columns>>

modelVars == <<processedSessionIds, userModel>>

proxyVars == <<req, res, fetched>>

uiVars == <<panel, fileVars, archive, modelVars, proxyVars>>

dataVars == <<engineVars, cacheVars, boot, storedVersion, stamp, op, report, uiVars>>

vars == <<storeVars, dataVars>>

(***************************************************************************)
(* Bounds of the model.                                                    *)
(***************************************************************************)
MaxStored == 11     \* regular sessions in the blob found at start-up
MaxCreated == 3     \* sessions created during a run, page loads included

(***************************************************************************)
(* Program constants.                                                      *)
(***************************************************************************)
SessionLimit == 10  \* sessionsWithContent.slice(0, 10)
Version == 3        \* persist option `version: 3`

exampleSessionIds ==
    <<"xefziloqhpwqlj8kb31szv1q", "wz49jbb35umuwi7gom6cnk5g", "qejzk4rjeofiaby238nhdxnb">>

IsExample(id) == \E i \in 1..Len(exampleSessionIds) : exampleSessionIds[i] = id

Min(a, b) == IF a < b THEN a ELSE b

Ids(ss) == {ss[i].id : i \in 1..Len(ss)}

(***************************************************************************)
(* A session, reduced to the fields the store logic reads: its id, the     *)
(* length of analysisResults, and createdAt (0 stands for a missing date,  *)
(* which the comparator reads as `createdAt || 0`).                        *)
(***************************************************************************)
Session(id, results, date) == [id |-> id, analysisResults |-> results, createdAt |-> date]

\* allSessions.filter(session => exampleSessionIds.includes(session.id))
ExampleSessions(allSessions) == SelectSeq(allSessions, LAMBDA s : IsExample(s.id))

\* allSessions.filter(session => !exampleSessionIds.includes(session.id))
RegularSessions(allSessions) == SelectSeq(allSessions, LAMBDA s : ~IsExample(s.id))

\* regularSessions.filter(s => s.analysisResults && s.analysisResults.length > 0)
SessionsWithContent(regularSessions) ==
    SelectSeq(regularSessions, LAMBDA s : s.analysisResults > 0)

NoLimit(sessionsWithContent) == sessionsWithContent

\* sessionsWithContent.slice(0, 10)
LimitedRegularSessions(sessionsWithContent) ==
    SubSeq(sessionsWithContent, 1, Min(SessionLimit, Len(sessionsWithContent)))

\* Array.prototype.sort is stable; the comparator is b.createdAt - a.createdAt,
\* so the result is in descending date order and equal dates keep their order.
RECURSIVE InsertByDate(_, _)
InsertByDate(s, sorted) ==
    IF sorted = <<>> THEN <<s>>
    ELSE IF Head(sorted).createdAt >= s.createdAt
         THEN <<Head(sorted)>> \o InsertByDate(s, Tail(sorted))
         ELSE <<s>> \o sorted

RECURSIVE SortedRegularSessions(_)
SortedRegularSessions(limitedRegularSessions) ==
    IF limitedRegularSessions = <<>> THEN <<>>
    ELSE LET n == Len(limitedRegularSessions)
         IN  InsertByDate(limitedRegularSessions[n],
                          SortedRegularSessions(SubSeq(limitedRegularSessions, 1, n - 1)))

\* [...sortedRegularSessions, ...exampleSessions]
LimitedSessions(allSessions) ==
    SortedRegularSessions(
        LimitedRegularSessions(SessionsWithContent(RegularSessions(allSessions))))
    \o ExampleSessions(allSessions)

\* limitedSessions[0]?.id || ''
FirstIdOrEmpty(limitedSessions) ==
    IF Len(limitedSessions) > 0 THEN limitedSessions[1].id ELSE ""

KeepCurrentSessionId(limitedSessions, id) == id

\* currentSessionExists ? currentSessionId : (limitedSessions[0]?.id || '')
ValidCurrentSessionId(limitedSessions, id) ==
    IF id \in Ids(limitedSessions) THEN id ELSE FirstIdOrEmpty(limitedSessions)

\* partialize: the subset of the state that is written to local storage
Partialize(allSessions, id) ==
    LET limitedSessions == LimitedSessions(allSessions)
    IN  [version |-> Version,
         sessions |-> limitedSessions,
         currentSessionId |-> ValidCurrentSessionId(limitedSessions, id)]

\* migrate: the current session id is replaced only under
\* `!currentSessionExists && currentSessionId`
MigratedCurrentSessionId(limitedSessions, id) ==
    IF id \notin Ids(limitedSessions) /\ id # ""
    THEN FirstIdOrEmpty(limitedSessions)
    ELSE id

Migrate(persistedState) ==
    LET limitedSessions == LimitedSessions(persistedState.sessions)
    IN  [version |-> Version,
         sessions |-> limitedSessions,
         currentSessionId |->
             MigratedCurrentSessionId(limitedSessions, persistedState.currentSessionId)]

NoOp == [name |-> "none", ok |-> TRUE]

NotEnriched == [set |-> FALSE, tables |-> {}]

\* the initial useState values of DataSourcesPanel, TableExportModal, ImportDBModal
PanelIdle ==
    [isExporting |-> FALSE, isUploadingFile |-> FALSE, isImporting |-> FALSE,
     isRefreshing |-> FALSE, isClearing |-> FALSE, isLoading |-> FALSE,
     modalImporting |-> FALSE, dialog |-> "none", pendingFiles |-> 0]

\* the engine and the caches before anything was loaded
\* no engine call has thrown and nothing is shown
NoReport == [raised |-> FALSE, message |-> {}, shown |-> {}]

\* no file was chosen and connector.loadFile was not called
NoFile == [name |-> <<>>, text |-> <<>>, columns |-> {}]

NotLoaded == [textRead |-> "notNeeded", called |-> FALSE,
              options |-> [method |-> "unset", delim |-> "unset"]]

FilesIdle == file = NoFile /\ lastLoad = NotLoaded /\ columns = {}

\* no session was processed by the default-model effect, no model selected
ModelIdle == processedSessionIds = {} /\ userModel = {}

\* the function has not been invoked
NoPath == [kind |-> "absent", string |-> "", array |-> <<>>]

NoRequest == [method |-> "none", authorization |-> "absent", path |-> NoPath]

NoResponse == [status |-> 0, body |-> "none"]

ProxyIdle == req = NoRequest /\ res = NoResponse /\ fetched = {}

UiIdle ==
    /\ panel = PanelIdle /\ report = NoReport
    /\ FilesIdle /\ archive = {}
    /\ ModelIdle
    /\ ProxyIdle

EngineIdle ==
    /\ catalog = {} /\ schemas = {} /\ vfs = {} /\ attached = {}
    /\ tables = {} /\ enrichedTables = NotEnriched /\ enriching = {}
    /\ effectDue = FALSE /\ prompt = {} /\ boot = {}
    /\ storedVersion = "none" /\ stamp = 0 /\ op = NoOp

DataIdle ==
    /\ UiIdle
    /\ EngineIdle

\* the session store before it is rehydrated, with nothing stored
StoreIdle ==
    /\ storage = [version |-> Version, sessions |-> <<>>, currentSessionId |-> ""]
    /\ sessions = <<>> /\ currentSessionId = "" /\ phase = "init"
    /\ saved = FALSE /\ created = 0

(***************************************************************************)
(* The blobs the store can find in local storage at start-up.  A blob was  *)
(* written by whichever build last saved under the key: n regular sessions *)
(* with content and dates 1..n, newest first or oldest first, followed by  *)
(* the first k example sessions; any current id, also an empty or a        *)
(* dangling one; written at the current or at an earlier version.          *)
(***************************************************************************)
StoredId(i) == "r" \o ToString(i)

StoredRegular(n, newestFirst) ==
    [i \in 1..n |-> LET d == IF newestFirst THEN n + 1 - i ELSE i
                    IN  Session(StoredId(d), 1, d)]

StoredExamples(k) == [i \in 1..k |-> Session(exampleSessionIds[i], 1, 0)]

StoredBlobs ==
    UNION {
        LET ss == StoredRegular(n, newestFirst) \o StoredExamples(k)
        IN  {[version |-> v, sessions |-> ss, currentSessionId |-> id] :
                v \in {Version - 1, Version},
                id \in {"", "deleted"} \cup Ids(ss)} :
        n \in 0..MaxStored, newestFirst \in BOOLEAN, k \in 0..Len(exampleSessionIds)}

(***************************************************************************)
(* Store operations.  The persist middleware writes partialize(state) on   *)
(* every set().                                                            *)
(***************************************************************************)
Persist(ss, id) ==
    /\ storage' = Partialize(ss, id)
    /\ saved' = TRUE

\* createSession of the AI slice: the new session goes to the front of the
\* list and becomes current.  Dates of new sessions follow the stored ones.
NewSession(k) == Session("n" \o ToString(k), 0, MaxStored + 1 + k)

StoreInit ==
    /\ storage \in StoredBlobs
    /\ sessions = <<>>
    /\ currentSessionId = ""
    /\ phase = "init"
    /\ saved = FALSE
    /\ created = 0
    /\ DataIdle

\* store creation: persist rehydrates, running migrate on a version mismatch
Rehydrate ==
    /\ phase = "init"
    /\ LET st == IF storage.version # Version THEN Migrate(storage) ELSE storage
       IN  /\ sessions' = st.sessions
           /\ currentSessionId' = st.currentSessionId
    /\ phase' = "mount"
    /\ UNCHANGED <<storage, saved, created, dataVars>>

\* CustomSessionControls: "Always create a fresh session on page load/refresh"
MountCreateSession ==
    /\ phase = "mount"
    /\ sessions' = <<NewSession(created + 1)>> \o sessions
    /\ currentSessionId' = NewSession(created + 1).id
    /\ created' = created + 1
    /\ phase' = "ready"
    /\ Persist(sessions', currentSessionId')
    /\ UNCHANGED dataVars

\* the "New Session" menu item
CreateSession ==
    /\ phase = "ready"
    /\ created < MaxCreated
    /\ sessions' = <<NewSession(created + 1)>> \o sessions
    /\ currentSessionId' = NewSession(created + 1).id
    /\ created' = created + 1
    /\ UNCHANGED <<phase, dataVars>>
    /\ Persist(sessions', currentSessionId')

\* the sessions listed in the history menu
MenuSessions ==
    LET shown == SelectSeq(sessions, LAMBDA s : s.analysisResults > 0 \/ IsExample(s.id))
    IN  SubSeq(shown, Len(shown) - Min(SessionLimit, Len(shown)) + 1, Len(shown))

SwitchSession ==
    /\ phase = "ready"
    /\ \E id \in Ids(MenuSessions) :
        /\ id # currentSessionId
        /\ currentSessionId' = id
    /\ UNCHANGED <<sessions, phase, created, dataVars>>
    /\ Persist(sessions', currentSessionId')

\* an analysis finishes in the current session: it now has a result
AddAnalysisResult ==
    /\ phase = "ready"
    /\ \E i \in 1..Len(sessions) :
        /\ sessions[i].id = currentSessionId
        /\ sessions[i].analysisResults = 0
        /\ sessions' = [sessions EXCEPT ![i].analysisResults = 1]
    /\ UNCHANGED <<currentSessionId, phase, created, dataVars>>
    /\ Persist(sessions', currentSessionId')

\* the page is reloaded: the store is built anew from the blob
Reload ==
    /\ phase = "ready"
    /\ created < MaxCreated
    /\ phase' = "init"
    /\ sessions' = <<>>
    /\ currentSessionId' = ""
    /\ saved' = FALSE
    /\ UNCHANGED <<storage, created, dataVars>>

StoreNext ==
    \/ Rehydrate
    \/ MountCreateSession
    \/ CreateSession
    \/ SwitchSession
    \/ AddAnalysisResult
    \/ Reload

SpecStore == StoreInit /\ [][StoreNext]_vars

(***************************************************************************)
(* Claims about the persisted session store.                               *)
(***************************************************************************)
PersistedRegular == RegularSessions(storage.sessions)

StoreWithContent == SessionsWithContent(RegularSessions(sessions))

C4_MigrateEqualsPartialize ==
    (phase = "mount" /\ storage.version # Version) =>
        LET p == Partialize(storage.sessions, storage.currentSessionId)
        IN  /\ sessions = p.sessions
            /\ currentSessionId = p.currentSessionId

(***************************************************************************)
(* The embedded engine, the schema cache and the prompt.                   *)
(***************************************************************************)
MaxRows == 2        \* row counts a table of the main schema goes through
MaxFileTables == 1  \* tables in an uploaded database file
MaxStamps == 2      \* operations that draw a timestamp for a file name
MaxInFlight == 1    \* sample-row enrichments running at once

DefaultTable == "cycling_tour_de_france"    \* dataSources[0].tableName
DatasetVersion == "v2-cycling-2025"         \* dataSources[0].datasetVersion
UploadTable == "upload"     \* convertToValidColumnOrTableName(file.name)
ImportSchema == "imp"       \* generateSchemaName(file.name)
TempCatalog == "temp_import"

Table(schema, tableName, rowCount) ==
    [schema |-> schema, tableName |-> tableName, rowCount |-> rowCount]

Named(cat, schema, tableName) ==
    {t \in cat : t.schema = schema /\ t.tableName = tableName}

InSchema(cat, schema) == {t \in cat : t.schema = schema}

\* the table names a list of descriptors shows, as `schema.tableName`
TableNames(ts) == {<<t.schema, t.tableName>> : t \in ts}

FileTable(i) == "t" \o ToString(i)

\* `temp_import_${Date.now()}.db`
TempFileName(k) == "temp_import_" \o ToString(k) \o ".db"

Engine(c, s, f, a) == [catalog |-> c, schemas |-> s, vfs |-> f, attached |-> a]

\* a handler ends: `ok` is FALSE when a step of it threw; a prompt lives only
\* while its question is being answered
Finish(name, ok) ==
    /\ op' = [name |-> name, ok |-> ok]
    /\ prompt' = {}

\* An error message is the set of the phrases of interest it contains.
KnownSubstrings ==
    {"out of memory", "failed to allocate", "3.1 gib/3.1 gib used",
     "memory limit exceeded", "unused blocks cannot be evicted"}

\* the messages the engine's errors are drawn from
ErrorMessages == {{}, {"out of memory"}, {"failed to allocate"}}

IsOutOfMemoryError(message) == message \cap KnownSubstrings # {}

\* handleOutOfMemoryError(error): the modal opens for an out-of-memory error
\* (GlobalErrorProvider registers the handler on its first render)
HandleOutOfMemoryError(message) ==
    IF IsOutOfMemoryError(message) THEN {"modal"} ELSE {}

\* console.error(..., error) as intercepted by initializeGlobalErrorHandler
ConsoleError(message) ==
    IF "out of memory" \in message
    THEN HandleOutOfMemoryError({"out of memory"})
    ELSE {}

\* what a handler shows: "success" and "error" toasts, an "alert", the "modal"
Shows(raised, message, shown) ==
    report' = [raised |-> raised,
               message |-> IF raised THEN message ELSE {},
               shown |-> shown]

\* catch { handleOutOfMemoryError(error); toast({variant: 'destructive'}) }
ErrorToast(message) == HandleOutOfMemoryError(message) \cup {"error"}

SetEngine(e) ==
    /\ catalog' = e.catalog
    /\ schemas' = e.schemas
    /\ vfs' = e.vfs
    /\ attached' = e.attached

\* db.refreshTableSchemas(): the cache becomes a fresh snapshot of the catalog;
\* the new `tables` array re-triggers the enhancement effect
RefreshTableSchemas(e) ==
    /\ tables' = e.catalog
    /\ effectDue' = TRUE

NoRefresh == UNCHANGED <<tables, effectDue>>

Booted == boot = {"dataset", "version"}

\* DROP SCHEMA IF EXISTS s CASCADE
DropSchemaCascade(e, s) ==
    [e EXCEPT !.schemas = @ \ {s}, !.catalog = @ \ InSchema(@, s)]

\* DROP TABLE IF EXISTS main.t
DropTable(e, schema, tableName) ==
    [e EXCEPT !.catalog = @ \ Named(@, schema, tableName)]

\* loadFile(file, tableName): the table is created or replaced
LoadFile(e, tableName) ==
    [e EXCEPT !.catalog = (@ \ Named(@, "main", tableName)) \cup {Table("main", tableName, 1)}]

(***************************************************************************)
(* Start-up: the room shell downloads the default data source and          *)
(* refreshes; the Room component checks the dataset version.  The two run  *)
(* asynchronously, in either order.                                        *)
(***************************************************************************)
DataInit ==
    /\ catalog = {} /\ schemas = {} /\ vfs = {} /\ attached = {}
    /\ tables = {} /\ enrichedTables = NotEnriched /\ enriching = {}
    /\ effectDue = FALSE /\ prompt = {} /\ boot = {}
    /\ storedVersion \in {"none", "v1-cycling-2025", DatasetVersion}
    /\ stamp = 0 /\ op = NoOp
    /\ StoreIdle
    /\ UiIdle

LoadDefaultDataset ==
    /\ "dataset" \notin boot
    /\ boot' = boot \cup {"dataset"}
    /\ LET e0 == Engine(catalog, schemas, vfs, attached)
           e1 == LoadFile(e0, DefaultTable)
       IN  /\ SetEngine(e1)
           /\ RefreshTableSchemas(e1)
           /\ Finish("initialize", TRUE)
           /\ Shows(FALSE, {}, {})
    /\ UNCHANGED <<enrichedTables, enriching, storedVersion, stamp, storeVars, uiVars>>

\* room.tsx checkDatasetVersion
CheckDatasetVersion ==
    /\ "version" \notin boot
    /\ boot' = boot \cup {"version"}
    /\ \E dropFails \in BOOLEAN :
        LET e0 == Engine(catalog, schemas, vfs, attached)
            versionChanged == storedVersion # "none" /\ storedVersion # DatasetVersion
            e1 == IF versionChanged /\ ~dropFails
                  THEN DropTable(e0, "main", DefaultTable) ELSE e0
        IN  /\ dropFails => versionChanged
            /\ SetEngine(e1)
            /\ Finish("checkDatasetVersion", ~dropFails)
            /\ Shows(dropFails, {}, {})
    /\ storedVersion' = DatasetVersion
    /\ NoRefresh
    /\ UNCHANGED <<enrichedTables, enriching, stamp, storeVars, uiVars>>

(***************************************************************************)
(* File import (file picker and drop zone).                                *)
(***************************************************************************)
HandleFileUpload ==
    /\ Booted
    /\ \E loadFails \in BOOLEAN, message \in ErrorMessages :
        LET e0 == Engine(catalog, schemas, vfs, attached)
            e1 == IF loadFails THEN e0 ELSE LoadFile(e0, UploadTable)
        IN  /\ message # {} => loadFails
            /\ SetEngine(e1)
            /\ IF loadFails THEN NoRefresh ELSE RefreshTableSchemas(e1)
            /\ Finish("fileUpload", ~loadFails)
            /\ Shows(loadFails, message,
                     IF loadFails THEN ErrorToast(message) ELSE {"success"})
    /\ UNCHANGED <<enrichedTables, enriching, boot, storedVersion, stamp, storeVars, uiVars>>

\* FileDropzone onDrop: the refresh follows the loop, whatever each load did
OnDrop ==
    /\ Booted
    /\ \E loadFails \in BOOLEAN, message \in ErrorMessages :
        LET e0 == Engine(catalog, schemas, vfs, attached)
            e1 == IF loadFails THEN e0 ELSE LoadFile(e0, UploadTable)
        IN  /\ message # {} => loadFails
            /\ SetEngine(e1)
            /\ RefreshTableSchemas(e1)
            /\ Finish("fileDrop", ~loadFails)
            /\ Shows(loadFails, message,
                     IF loadFails THEN ErrorToast(message) ELSE {"success"})
    /\ UNCHANGED <<enrichedTables, enriching, boot, storedVersion, stamp, storeVars, uiVars>>

(***************************************************************************)
(* Database-file import.  `fail` names the engine call that throws, if any.*)
(***************************************************************************)
ImportFailures(n) ==
    {[step |-> s, at |-> 0] :
        s \in {"none", "dropSchema", "register", "attach", "listTables"}
              \cup (IF n > 0 THEN {"createSchema"} ELSE {})}
    \cup {[step |-> s, at |-> i] : s \in {"describe", "createTable"}, i \in 1..n}

\* cleanupTempDatabase: DETACH throws when temp_import is not attached; the
\* catch swallows the error and dropFile is never reached
CleanupTempDatabase(e, tempFileName) ==
    IF TempCatalog \in e.attached
    THEN [e EXCEPT !.attached = @ \ {TempCatalog}, !.vfs = @ \ {tempFileName}]
    ELSE e

\* the loop of createSchemaAndTables: CREATE TABLE schema.t AS SELECT ...
\* throws on an engine error and when schema.t already exists
RECURSIVE CreateTables(_, _, _, _)
CreateTables(e, i, n, fail) ==
    IF i > n THEN [e |-> e, ok |-> TRUE]
    ELSE IF \/ fail.step = "createTable" /\ fail.at = i
            \/ Named(e.catalog, ImportSchema, FileTable(i)) # {}
         THEN [e |-> e, ok |-> FALSE]
         ELSE CreateTables(
                [e EXCEPT !.catalog = @ \cup {Table(ImportSchema, FileTable(i), 1)}],
                i + 1, n, fail)

\* createSchemaAndTables: CREATE SCHEMA IF NOT EXISTS, then the loop
CreateSchemaAndTables(e, n, fail) ==
    IF fail.step = "createSchema" THEN [e |-> e, ok |-> FALSE]
    ELSE CreateTables([e EXCEPT !.schemas = @ \cup {ImportSchema}], 1, n, fail)

\* extractTablesFromDB: ATTACH, then the catalog queries
ExtractTablesFromDB(e, fail) ==
    IF fail.step = "attach" THEN [e |-> e, ok |-> FALSE]
    ELSE [e |-> [e EXCEPT !.attached = @ \cup {TempCatalog}],
          ok |-> fail.step \notin {"listTables", "describe"}]

\* importDuckDBFile: try { load; extract; create } catch { ... } finally { cleanup }
ImportDuckDBFile(e, n, fail, tempFileName) ==
    IF fail.step = "register"
    THEN [e |-> e, success |-> FALSE, tempFileName |-> ""]
    ELSE LET loaded == [e EXCEPT !.vfs = @ \cup {tempFileName}]
             x == ExtractTablesFromDB(loaded, fail)
             c == IF x.ok /\ n > 0
                  THEN CreateSchemaAndTables(x.e, n, fail)
                  ELSE [e |-> x.e, ok |-> FALSE]
         IN  [e |-> CleanupTempDatabase(c.e, tempFileName),
              success |-> c.ok,
              tempFileName |-> tempFileName]

\* whether an engine call of the import throws: the injected failure, or a
\* CREATE TABLE that meets a table of the same name; a file with no table
\* fails with an error of the application's own
ImportThrows(n, fail) ==
    \/ fail.step \in {"dropSchema", "register", "attach", "listTables", "describe"}
    \/ n > 0 /\ fail.step \in {"createSchema", "createTable", "none"}

\* the modal's catch logs with console.error and shows nothing; the catch of
\* importDuckDBFile logs with console.error, calls handleOutOfMemoryError and
\* shows the failure toast; the success toast ends its try block
ImportShows(success, fail, message) ==
    IF success THEN {"success"}
    ELSE IF fail.step = "dropSchema" THEN ConsoleError(message)
    ELSE ConsoleError(message) \cup ErrorToast(message)

\* ImportDBModal.handleImport -> DataSourcesPanel.handleImportDatabase
HandleImport ==
    /\ Booted
    /\ stamp < MaxStamps
    /\ \E n \in 0..MaxFileTables, schemaExists \in {FALSE, (ImportSchema \in schemas)} :
       \E replaceIfExists \in {FALSE, schemaExists},
          fail \in ImportFailures(n), message \in ErrorMessages :
        LET dropping == schemaExists /\ replaceIfExists
            e0 == Engine(catalog, schemas, vfs, attached)
            dropped == IF dropping THEN DropSchemaCascade(e0, ImportSchema) ELSE e0
            r == IF fail.step = "dropSchema"
                 THEN [e |-> e0, success |-> FALSE, tempFileName |-> ""]
                 ELSE ImportDuckDBFile(dropped, n, fail, TempFileName(stamp + 1))
        IN  /\ ~(schemaExists /\ ~replaceIfExists)
            /\ fail.step = "dropSchema" => dropping
            /\ message # {} => fail.step # "none"
            /\ SetEngine(r.e)
            /\ IF r.success THEN RefreshTableSchemas(r.e) ELSE NoRefresh
            /\ Finish("importDatabase", r.success)
            /\ LET thrown == ~r.success /\ ImportThrows(n, fail)
               IN  Shows(thrown, message,
                         ImportShows(r.success, fail, IF thrown THEN message ELSE {}))
    /\ stamp' = stamp + 1
    /\ UNCHANGED <<enrichedTables, enriching, boot, storedVersion, storeVars, uiVars>>

(***************************************************************************)
(* Clear all data: the schemas other than main are dropped, then the       *)
(* tables of main, then the cache is refreshed; an engine error anywhere   *)
(* ends the handler with what was dropped so far.                          *)
(***************************************************************************)
HandleClearAllData ==
    /\ Booted
    /\ \E droppedSchemas \in SUBSET schemas :
       \E droppedTables \in SUBSET InSchema(catalog, "main") :
        LET e0 == Engine(catalog, schemas, vfs, attached)
            complete == droppedSchemas = schemas /\ droppedTables = InSchema(catalog, "main")
            e1 == [e0 EXCEPT
                     !.schemas = @ \ droppedSchemas,
                     !.catalog = {t \in @ : t.schema \notin droppedSchemas} \ droppedTables]
        IN  /\ droppedTables # {} => droppedSchemas = schemas
            /\ SetEngine(e1)
            /\ IF complete THEN RefreshTableSchemas(e1) ELSE NoRefresh
            /\ Finish("clearAllData", complete)
            /\ Shows(~complete, {}, IF complete THEN {"success"} ELSE {"error"})
    /\ UNCHANGED <<enrichedTables, enriching, boot, storedVersion, stamp, storeVars, uiVars>>

\* the refresh button
HandleRefreshSchema ==
    /\ Booted
    /\ tables # catalog
    /\ LET e0 == Engine(catalog, schemas, vfs, attached)
       IN  /\ RefreshTableSchemas(e0)
           /\ Finish("refreshSchema", TRUE)
           /\ Shows(FALSE, {}, {"success"})
    /\ UNCHANGED <<engineVars, enrichedTables, enriching, boot, storedVersion, stamp,
                   storeVars, uiVars>>

(***************************************************************************)
(* The query tool of the AI agent: any statement runs; the cache is        *)
(* refreshed when the statement starts with CREATE, DROP, ALTER, TRUNCATE  *)
(* or RENAME.  A statement fails for a reason of its own (the table is     *)
(* there already, or is not there) or because the engine gives up.         *)
(***************************************************************************)
IsDDL(keyword) == keyword \in {"CREATE", "DROP", "ALTER", "TRUNCATE", "RENAME"}

\* the effect of a statement on the catalog; `ok` is FALSE when it throws
Execute(e, keyword, t) ==
    CASE keyword = "SELECT" -> [e |-> e, ok |-> TRUE]
      [] keyword = "CREATE" ->
            IF Named(e.catalog, "main", UploadTable) # {}
            THEN [e |-> e, ok |-> FALSE]
            ELSE [e |-> LoadFile(e, UploadTable), ok |-> TRUE]
      [] keyword = "DROP" ->
            [e |-> [e EXCEPT !.catalog = @ \ {t}], ok |-> t \in e.catalog]
      [] keyword = "INSERT" ->
            IF t \in e.catalog /\ t.rowCount < MaxRows
            THEN [e |-> [e EXCEPT !.catalog =
                            (@ \ {t}) \cup {[t EXCEPT !.rowCount = @ + 1]}],
                  ok |-> TRUE]
            ELSE [e |-> e, ok |-> FALSE]

QueryTool ==
    /\ Booted
    /\ \E keyword \in {"SELECT", "CREATE", "DROP", "INSERT"}, message \in ErrorMessages,
          engineFails \in BOOLEAN :
       \E t \in catalog :
        LET e0 == Engine(catalog, schemas, vfs, attached)
            r == IF engineFails THEN [e |-> e0, ok |-> FALSE] ELSE Execute(e0, keyword, t)
        IN  /\ keyword = "INSERT" => t.schema = "main" /\ t.tableName = DefaultTable
            /\ message # {} => engineFails
            /\ SetEngine(r.e)
            /\ IF r.ok /\ IsDDL(keyword) THEN RefreshTableSchemas(r.e) ELSE NoRefresh
            /\ Finish("queryTool", r.ok)
            /\ Shows(~r.ok, message, IF r.ok THEN {} ELSE ConsoleError(message))
    /\ UNCHANGED <<enrichedTables, enriching, boot, storedVersion, stamp, storeVars, uiVars>>

(***************************************************************************)
(* useSampleRowsEnhancement: when `tables` changes and is not empty, the   *)
(* tables are enriched asynchronously and the result is stored in          *)
(* window.__enrichedTables.                                                *)
(***************************************************************************)
EnhanceTables ==
    /\ effectDue
    /\ Cardinality(enriching) < MaxInFlight
    /\ effectDue' = FALSE
    /\ enriching' = IF tables # {} THEN enriching \cup {tables} ELSE enriching
    /\ UNCHANGED <<engineVars, tables, enrichedTables, prompt, boot, storedVersion,
                   stamp, op, report, storeVars, uiVars>>

StoreEnrichedTables ==
    /\ \E snapshot \in enriching, connectorFails \in BOOLEAN :
        /\ enriching' = enriching \ {snapshot}
        /\ enrichedTables' = IF connectorFails THEN enrichedTables
                             ELSE [set |-> TRUE, tables |-> snapshot]
    /\ UNCHANGED <<engineVars, tables, effectDue, prompt, boot, storedVersion,
                   stamp, op, report, storeVars, uiVars>>

\* getCustomInstructions(tablesSchema): the tables listed under AVAILABLE TABLES
AvailableTables(tablesSchema, enriched) ==
    TableNames(IF enriched.set THEN enriched.tables ELSE tablesSchema)

\* a question is asked: the system prompt is built from the schema cache
AskQuestion ==
    /\ Booted
    /\ prompt' = AvailableTables(tables, enrichedTables)
    /\ op' = [name |-> "question", ok |-> TRUE]
    /\ Shows(FALSE, {}, {})
    /\ UNCHANGED <<engineVars, tables, enrichedTables, enriching, effectDue, boot,
                   storedVersion, stamp, storeVars, uiVars>>

DataNext ==
    \/ LoadDefaultDataset
    \/ CheckDatasetVersion
    \/ HandleFileUpload
    \/ OnDrop
    \/ HandleImport
    \/ HandleClearAllData
    \/ HandleRefreshSchema
    \/ QueryTool
    \/ EnhanceTables
    \/ StoreEnrichedTables
    \/ AskQuestion

SpecData == DataInit /\ [][DataNext]_vars

(***************************************************************************)
(* Claims about the schema cache, the prompt and the database-file import. *)
(***************************************************************************)
\* C5: whenever a file import, a database import, clear-all, the dataset
\* version drop or a statement of the query tool successfully changes the
\* tables or their rows, the schema cache is refreshed before the operation
\* is finished: after the step the cache is the catalog.
C5_RefreshAfterMutation ==
    [][(op'.ok /\ catalog' # catalog) => tables' = catalog']_vars

\* C6: the AVAILABLE TABLES list of every system prompt is exactly the set of
\* tables of the schema cache at the moment the prompt is built.
C6_PromptListsCachedTables ==
    op.name = "question" => prompt = TableNames(tables)

\* C7: a database-file import that fails at any step leaves the primary
\* catalog with no schema and no table created by that import.
C7_FailedImportCreatesNothing ==
    [][(op'.name = "importDatabase" /\ stamp' # stamp /\ ~op'.ok)
        => (catalog' \subseteq catalog /\ schemas' \subseteq schemas)]_vars

\* C8: at the end of every database-file import, whether it succeeded or
\* failed after the file was registered, temp_import is detached and the
\* registered temporary file is no longer in the virtual filesystem.
C8_TempDatabaseCleanedUp ==
    op.name = "importDatabase" =>
        (TempCatalog \notin attached /\ TempFileName(stamp) \notin vfs)

(***************************************************************************)
(* Export: one table to a file, and the whole database to a ZIP archive.   *)
(* COPY ... TO writes a file into the virtual filesystem of the engine.    *)
(***************************************************************************)
ExportFormats == {"csv", "pipe", "parquet"}

Extension(format) ==
    CASE format = "csv" -> ".csv"
      [] format = "pipe" -> ".txt"
      [] format = "parquet" -> ".parquet"

\* `${tableName}_${timestamp}` and the extension of the format
ExportFileName(tableName, k, format) ==
    tableName \o "_" \o ToString(k) \o Extension(format)

ParquetFileName(tableName) == tableName \o ".parquet"

CsvFileName(tableName) == tableName \o ".csv"

\* the tables the export modal offers and exportDatabase lists
MainTableNames(cat) == {t.tableName : t \in InSchema(cat, "main")}

\* exportSingleTable, called by the export modal.  `fail` names the step that
\* throws: the COPY, copyFileToBuffer (or its empty buffer), the download
ExportSingleTable ==
    /\ Booted
    /\ stamp < MaxStamps
    /\ \E tableName \in MainTableNames(catalog), format \in ExportFormats,
          fail \in {"none", "copy", "buffer", "download"}, message \in ErrorMessages :
        LET fileName == ExportFileName(tableName, stamp + 1, format)
        IN  /\ message # {} => fail \in {"copy", "buffer"}
            /\ vfs' = CASE fail = "copy" -> vfs
                        [] fail = "none" -> vfs \ {fileName}
                        [] OTHER -> vfs \cup {fileName}
            /\ Finish("exportTable", fail = "none")
            /\ LET thrown == fail \in {"copy", "buffer"}
                   text == IF thrown THEN message ELSE {}
               IN  Shows(thrown, message,
                         IF fail = "none" THEN {"success"}
                         ELSE ErrorToast(text) \cup ConsoleError(text))
    /\ stamp' = stamp + 1
    /\ UNCHANGED <<catalog, schemas, attached, tables, enrichedTables, enriching,
                   effectDue, boot, storedVersion, storeVars, uiVars>>

\* what the loop of exportDatabase does for one table
TableOutcomes == {"parquet", "parquetThenCsv", "parquetNoCsv", "csv", "none"}

\* the files the loop leaves in the virtual filesystem for one table
FilesWritten(tableName, outcome) ==
    CASE outcome = "parquet" -> {ParquetFileName(tableName)}
      [] outcome = "parquetThenCsv" -> {ParquetFileName(tableName), CsvFileName(tableName)}
      [] outcome = "parquetNoCsv" -> {ParquetFileName(tableName)}
      [] outcome = "csv" -> {CsvFileName(tableName)}
      [] outcome = "none" -> {}

\* Step 4 for one table: dropFile of the Parquet file and, only when that
\* throws, dropFile of the CSV file.  Whether dropFile of a file that does
\* not exist throws is the engine's choice.
CleanupTable(files, tableName, dropMissingThrows) ==
    IF ParquetFileName(tableName) \in files
    THEN files \ {ParquetFileName(tableName)}
    ELSE IF dropMissingThrows THEN files \ {CsvFileName(tableName)} ELSE files

RECURSIVE CleanupFiles(_, _, _)
CleanupFiles(files, tableNames, dropMissingThrows) ==
    IF tableNames = {} THEN files
    ELSE LET tableName == CHOOSE n \in tableNames : TRUE
         IN  CleanupFiles(CleanupTable(files, tableName, dropMissingThrows),
                          tableNames \ {tableName}, dropMissingThrows)

\* exportDatabase alerts when there is no table and in its outer catch, where
\* it also calls handleOutOfMemoryError; the catch blocks of the loop only
\* log with console.log.  It never throws, so handleExportDatabase always
\* goes on to its success toast.
ExportDatabaseShows(listFails, noTables, zipFails, message) ==
    {"success"}
    \cup (IF listFails \/ noTables \/ zipFails THEN {"alert"} ELSE {})
    \cup (IF listFails \/ (~noTables /\ zipFails)
          THEN HandleOutOfMemoryError(message) ELSE {})

\* parquetFiles[tableName] is set when the Parquet file or the CSV file was
\* read into a buffer; after a Parquet file that was written, the failure
\* was that read (`buffered` FALSE) or the query of the columns after it
InArchive(outcome, buffered) ==
    \/ outcome \in {"parquet", "parquetThenCsv", "csv"}
    \/ outcome = "parquetNoCsv" /\ buffered

\* COPY ${tableName} ...: the unqualified name is a table of schema main
Archived(names, outcome, buffered) ==
    {[schema |-> "main", tableName |-> n] : n \in {m \in names : InArchive(outcome[m], buffered)}}

\* exportDatabase, called by handleExportDatabase
ExportDatabase ==
    /\ Booted
    /\ \E listFails \in BOOLEAN, message \in ErrorMessages :
       \E zipFails \in {FALSE, ~listFails}, dropMissingThrows \in {FALSE, ~listFails},
          outcome \in [MainTableNames(catalog) ->
                          IF listFails THEN {"parquet"} ELSE TableOutcomes] :
       \E buffered \in {FALSE, (\E n \in DOMAIN outcome : outcome[n] = "parquetNoCsv")} :
        LET names == MainTableNames(catalog)
            written == vfs \cup UNION {FilesWritten(n, outcome[n]) : n \in names}
        IN  /\ message # {} => (listFails \/ \E n \in names : outcome[n] # "parquet")
            /\ vfs' = IF listFails \/ names = {} THEN vfs
                      ELSE IF zipFails THEN written
                      ELSE CleanupFiles(written, names, dropMissingThrows)
            /\ archive' = IF listFails \/ zipFails THEN {}
                          ELSE Archived(names, outcome, buffered)
            /\ Finish("exportDatabase", ~listFails /\ (names # {} => ~zipFails))
            /\ Shows(listFails \/ \E n \in names : outcome[n] # "parquet", message,
                     ExportDatabaseShows(listFails, names = {}, zipFails, message))
    /\ UNCHANGED <<catalog, schemas, attached, tables, enrichedTables, enriching,
                   effectDue, boot, storedVersion, stamp, storeVars, panel, fileVars,
                   modelVars, proxyVars>>

ExportNext ==
    \/ LoadDefaultDataset
    \/ CheckDatasetVersion
    \/ HandleFileUpload
    \/ ExportSingleTable
    \/ ExportDatabase

SpecExport == DataInit /\ [][ExportNext]_vars

\* C9: every file a single-table export creates with COPY ... TO is dropped
\* by the time exportSingleTable ends, also when the export fails after the
\* file was created.  The file name carries the time of the export, so the
\* files of the export that ended last are those named with `stamp`.
C9_ExportedFileDropped ==
    op.name = "exportTable" =>
        \A tableName \in MainTableNames(catalog), format \in ExportFormats :
            ExportFileName(tableName, stamp, format) \notin vfs

\* C10: when a whole-database export ends, successfully or not, no Parquet
\* file and no CSV fallback file of any table remains in the virtual
\* filesystem.  Only exportDatabase writes files of these names, so one that
\* is there was left behind by an export of the database.
C10_NoPerTableFileRemains ==
    op.name = "exportDatabase" =>
        \A tableName \in MainTableNames(catalog) :
            /\ ParquetFileName(tableName) \notin vfs
            /\ CsvFileName(tableName) \notin vfs

(***************************************************************************)
(* The data sources panel: every handler sets its own flag when it starts  *)
(* and clears it in its `finally`; a button is disabled by its own flag.   *)
(* A dialog that is open covers the panel.  The engine calls a handler     *)
(* makes between its two steps are those of SpecData and SpecExport.       *)
(***************************************************************************)
MaxFiles == 2       \* files chosen at once in the file picker

PanelFree == panel.dialog = "none"

\* the handlers leave everything but the panel and the last result alone
PanelStep ==
    UNCHANGED <<engineVars, cacheVars, boot, storedVersion, stamp, report, storeVars,
                fileVars, archive, modelVars, proxyVars>>

\* Import File: the picker's onchange runs handleFileUpload file by file
ClickImportFile ==
    /\ PanelFree
    /\ ~panel.isUploadingFile
    /\ \E n \in 1..MaxFiles :
        panel' = [panel EXCEPT !.isUploadingFile = TRUE, !.pendingFiles = n - 1]
    /\ UNCHANGED op
    /\ PanelStep

FileUploadDone ==
    /\ panel.isUploadingFile
    /\ panel' = IF panel.pendingFiles > 0
                THEN [panel EXCEPT !.pendingFiles = @ - 1]
                ELSE [panel EXCEPT !.isUploadingFile = FALSE]
    /\ \E ok \in BOOLEAN : Finish("fileUpload", ok)
    /\ PanelStep

\* Download Database
ClickExportDatabase ==
    /\ PanelFree
    /\ ~panel.isExporting
    /\ panel' = [panel EXCEPT !.isExporting = TRUE]
    /\ UNCHANGED op
    /\ PanelStep

ExportDatabaseDone ==
    /\ panel.isExporting
    /\ panel' = [panel EXCEPT !.isExporting = FALSE]
    /\ \E ok \in BOOLEAN : Finish("exportDatabase", ok)
    /\ PanelStep

\* the refresh button
ClickRefresh ==
    /\ PanelFree
    /\ ~panel.isRefreshing
    /\ panel' = [panel EXCEPT !.isRefreshing = TRUE]
    /\ UNCHANGED op
    /\ PanelStep

RefreshDone ==
    /\ panel.isRefreshing
    /\ panel' = [panel EXCEPT !.isRefreshing = FALSE]
    /\ Finish("refreshSchema", TRUE)
    /\ PanelStep

\* Export Table opens TableExportModal; Export runs handleExport
OpenTableExport ==
    /\ PanelFree
    /\ panel' = [panel EXCEPT !.dialog = "tableExport"]
    /\ UNCHANGED op
    /\ PanelStep

ClickExportTable ==
    /\ panel.dialog = "tableExport"
    /\ ~panel.isLoading
    /\ panel' = [panel EXCEPT !.isLoading = TRUE]
    /\ UNCHANGED op
    /\ PanelStep

\* onClose() follows a successful export only
TableExportDone ==
    /\ panel.isLoading
    /\ \E ok \in BOOLEAN :
        /\ panel' = [panel EXCEPT !.isLoading = FALSE,
                                  !.dialog = IF ok THEN "none" ELSE @]
        /\ Finish("exportTable", ok)
    /\ PanelStep

\* handleCancel of TableExportModal
CancelTableExport ==
    /\ panel.dialog = "tableExport"
    /\ ~panel.isLoading
    /\ panel' = [panel EXCEPT !.dialog = "none"]
    /\ UNCHANGED op
    /\ PanelStep

\* Import Database: a file is picked and ImportDBModal opens
SelectDatabaseFile ==
    /\ PanelFree
    /\ ~panel.isImporting
    /\ panel' = [panel EXCEPT !.dialog = "importDatabase", !.modalImporting = FALSE]
    /\ UNCHANGED op
    /\ PanelStep

\* Import in ImportDBModal: handleImport, then handleImportDatabase
ClickImportDatabase ==
    /\ panel.dialog = "importDatabase"
    /\ ~panel.modalImporting
    /\ panel' = [panel EXCEPT !.modalImporting = TRUE, !.isImporting = TRUE]
    /\ UNCHANGED op
    /\ PanelStep

\* handleImportDatabase never throws: the modal calls onClose()
ImportDatabaseDone ==
    /\ panel.isImporting
    /\ panel' = [panel EXCEPT !.isImporting = FALSE, !.modalImporting = FALSE,
                              !.dialog = IF @ = "importDatabase" THEN "none" ELSE @]
    /\ \E ok \in BOOLEAN : Finish("importDatabase", ok)
    /\ PanelStep

\* onOpenChange of ImportDBModal (Escape, a click outside): onClose()
CloseImportModal ==
    /\ panel.dialog = "importDatabase"
    /\ panel' = [panel EXCEPT !.dialog = "none"]
    /\ UNCHANGED op
    /\ PanelStep

\* Clear All Data opens the confirmation dialog
OpenClearDialog ==
    /\ PanelFree
    /\ ~panel.isClearing
    /\ panel' = [panel EXCEPT !.dialog = "clearData"]
    /\ UNCHANGED op
    /\ PanelStep

ConfirmClearAllData ==
    /\ panel.dialog = "clearData"
    /\ ~panel.isClearing
    /\ panel' = [panel EXCEPT !.isClearing = TRUE]
    /\ UNCHANGED op
    /\ PanelStep

ClearAllDataDone ==
    /\ panel.isClearing
    /\ panel' = [panel EXCEPT !.isClearing = FALSE,
                              !.dialog = IF @ = "clearData" THEN "none" ELSE @]
    /\ \E ok \in BOOLEAN : Finish("clearAllData", ok)
    /\ PanelStep

\* Cancel, Escape or a click outside the confirmation dialog
CloseClearDialog ==
    /\ panel.dialog = "clearData"
    /\ panel' = [panel EXCEPT !.dialog = "none"]
    /\ UNCHANGED op
    /\ PanelStep

PanelNext ==
    \/ ClickImportFile
    \/ FileUploadDone
    \/ ClickExportDatabase
    \/ ExportDatabaseDone
    \/ ClickRefresh
    \/ RefreshDone
    \/ OpenTableExport
    \/ ClickExportTable
    \/ TableExportDone
    \/ CancelTableExport
    \/ SelectDatabaseFile
    \/ ClickImportDatabase
    \/ ImportDatabaseDone
    \/ CloseImportModal
    \/ OpenClearDialog
    \/ ConfirmClearAllData
    \/ ClearAllDataDone
    \/ CloseClearDialog

PanelInit == DataIdle /\ StoreIdle

SpecPanel == PanelInit /\ [][PanelNext]_vars

\* the import and export operations that are in progress
InProgress ==
    {o \in {"fileImport", "databaseImport", "tableExport", "databaseExport"} :
        \/ o = "fileImport" /\ panel.isUploadingFile
        \/ o = "databaseImport" /\ panel.isImporting
        \/ o = "tableExport" /\ panel.isLoading
        \/ o = "databaseExport" /\ panel.isExporting}

\* C11: at no moment are two of file import, database import, single-table
\* export and whole-database export in progress together.
C11_OneAtATime == Cardinality(InProgress) <= 1

(***************************************************************************)
(* Claims about what the import and export handlers show.                  *)
(***************************************************************************)
ImportExportOps == {"fileUpload", "fileDrop", "importDatabase", "exportTable", "exportDatabase"}

\* C12: a success notification for a database export, table export, file
\* import or database import is shown only if the operation completed and
\* produced its result.
C12_SuccessOnlyWhenCompleted ==
    (op.name \in ImportExportOps /\ "success" \in report.shown) => op.ok

\* C13: every error raised by an engine call during a file import, a
\* database import, a single-table export or a whole-database export is
\* surfaced to the user by a toast or an alert.
C13_ErrorsSurfaced ==
    (op.name \in ImportExportOps /\ report.raised)
        => report.shown \cap {"error", "alert"} # {}

\* C14: every error caught at an engine call site (file import, database
\* import, table export, database export, query tool) whose message contains
\* a known out-of-memory substring opens the out-of-memory modal.
C14_OutOfMemoryOpensModal ==
    (/\ op.name \in ImportExportOps \cup {"queryTool"}
     /\ report.raised
     /\ IsOutOfMemoryError(report.message))
        => "modal" \in report.shown


(***************************************************************************)
(* File import, file by file: the load options chosen from the file name   *)
(* and the first line of a .txt file, the load, and the renaming of a      *)
(* column DEFAULT.  A file name is the sequence of its dot-separated       *)
(* parts, a text the sequence of its characters.                           *)
(***************************************************************************)
MaxTextLen == 2     \* characters of the text of a file

NameParts == {"csv", "CSV", "txt", "TXT", "pipe", "psv", "tsv", "parquet", "json"}

FileNames == {<<"data">>} \cup {<<"data", x>> : x \in NameParts}

Chars == {"a", "|", "\t", ",", "\n"}

Texts == UNION {[1..n -> Chars] : n \in 0..MaxTextLen}

ColumnNames == {"id", "DEFAULT", "DEFAULT_FLAG"}

Files ==
    {[name |-> n, text |-> t, columns |-> c] :
        n \in FileNames, t \in Texts, c \in (SUBSET ColumnNames) \ {{}}}

\* String.prototype.toLowerCase on the name parts in use
ToLowerCase(part) ==
    CASE part = "CSV" -> "csv"
      [] part = "TXT" -> "txt"
      [] OTHER -> part

\* file.name.toLowerCase().split('.').pop()
FileExtension(name) == ToLowerCase(name[Len(name)])

\* text.split('\n')[0]
FirstLine(text) ==
    LET breaks == {i \in DOMAIN text : text[i] = "\n"}
    IN  IF breaks = {} THEN text
        ELSE SubSeq(text, 1, (CHOOSE i \in breaks : \A j \in breaks : i <= j) - 1)

\* (firstLine.match(/c/g) || []).length
Count(ch, line) == Cardinality({i \in DOMAIN line : line[i] = ch})

\* { method: 'read_csv', delim, auto_detect: true, sample_size: -1 };
\* delim "unset" leaves the delimiter to the engine's auto-detection
ReadCsv(delim) == [method |-> "read_csv", delim |-> delim]

\* loadOptions left undefined (file picker) or {} (drop zone)
NoOptions == [method |-> "unset", delim |-> "unset"]

CommaFirst(firstLine) ==
    IF Count(",", firstLine) > 0 THEN ReadCsv(",")
    ELSE IF Count("|", firstLine) > 0 THEN ReadCsv("|")
    ELSE IF Count("\t", firstLine) > 0 THEN ReadCsv("\t")
    ELSE ReadCsv("unset")

\* the if chain on pipeCount, tabCount and commaCount
DelimiterOptions(firstLine) ==
    IF Count("|", firstLine) > 0 THEN ReadCsv("|")
    ELSE IF Count("\t", firstLine) > 0 THEN ReadCsv("\t")
    ELSE IF Count(",", firstLine) > 0 THEN ReadCsv(",")
    ELSE ReadCsv("unset")

\* the options by extension; `analysed` is what the .txt branch came to
LoadOptions(fileExtension, analysed) ==
    IF fileExtension \in {"pipe", "psv"} THEN ReadCsv("|")
    ELSE IF fileExtension = "tsv" THEN ReadCsv("\t")
    ELSE IF fileExtension = "txt" THEN analysed
    ELSE NoOptions

\* DESCRIBE the table, then ALTER TABLE ... RENAME COLUMN "DEFAULT" TO
\* DEFAULT_FLAG; the engine refuses a name the table already has, and the
\* catch around both statements only warns
RenameDefaultColumn(cols, describeFails, alterFails) ==
    IF describeFails \/ "DEFAULT" \notin cols THEN cols
    ELSE IF alterFails \/ "DEFAULT_FLAG" \in cols THEN cols
    ELSE (cols \ {"DEFAULT"}) \cup {"DEFAULT_FLAG"}

TextRead(fileExtension, readFails) ==
    IF fileExtension # "txt" THEN "notNeeded"
    ELSE IF readFails THEN "failed" ELSE "ok"

\* the part both handlers share once the options are known (or the reading
\* of the text has thrown): loadFile, the renaming, the toast
LoadAndRename(name, textRead, called, options, loadFails, describeFails, alterFails, alwaysRefresh) ==
    LET e0 == Engine(catalog, schemas, vfs, attached)
        loaded == called /\ ~loadFails
        e1 == IF loaded THEN LoadFile(e0, UploadTable) ELSE e0
    IN  /\ loadFails => called
        /\ describeFails => loaded
        /\ alterFails => (loaded /\ ~describeFails /\ "DEFAULT" \in file.columns)
        /\ lastLoad' = [textRead |-> textRead, called |-> called,
                        options |-> IF called THEN options ELSE NoOptions]
        /\ columns' = IF loaded
                      THEN RenameDefaultColumn(file.columns, describeFails, alterFails)
                      ELSE columns
        /\ SetEngine(e1)
        /\ IF loaded \/ alwaysRefresh THEN RefreshTableSchemas(e1) ELSE NoRefresh
        /\ Finish(name, loaded)
        /\ Shows(loadFails, {}, IF loaded THEN {"success"} ELSE {"error"})
        /\ UNCHANGED <<file, panel, archive, modelVars, proxyVars, enrichedTables, enriching,
                       boot, storedVersion, stamp, storeVars>>

\* handleFileUpload(file): nothing catches a failed file.text() but the
\* handler's own catch
HandleFileUploadFile ==
    \E readFails, loadFails, describeFails, alterFails \in BOOLEAN :
        LET fileExtension == FileExtension(file.name)
            textRead == TextRead(fileExtension, readFails)
        IN  /\ readFails => fileExtension = "txt"
            /\ LoadAndRename("fileUpload", textRead, textRead # "failed",
                             LoadOptions(fileExtension,
                                         DelimiterOptions(FirstLine(file.text))),
                             loadFails, describeFails, alterFails, FALSE)

\* onDrop, for one file: a failed file.text() falls back to auto-detection
OnDropFile ==
    \E readFails, loadFails, describeFails, alterFails \in BOOLEAN :
        LET fileExtension == FileExtension(file.name)
            textRead == TextRead(fileExtension, readFails)
        IN  /\ readFails => fileExtension = "txt"
            /\ LoadAndRename("fileDrop", textRead, TRUE,
                             LoadOptions(fileExtension,
                                         IF textRead = "failed" THEN ReadCsv("unset")
                                         ELSE DelimiterOptions(FirstLine(file.text))),
                             loadFails, describeFails, alterFails, TRUE)

FilesInit ==
    /\ file \in Files
    /\ lastLoad = NotLoaded /\ columns = {}
    /\ panel = PanelIdle /\ report = NoReport /\ archive = {}
    /\ ModelIdle
    /\ ProxyIdle
    /\ EngineIdle
    /\ StoreIdle

FilesNext ==
    \/ HandleFileUploadFile
    \/ OnDropFile

SpecFiles == FilesInit /\ [][FilesNext]_vars

FileImports == {"fileUpload", "fileDrop"}

\* C15: after a file import that reports success, by the file picker or by
\* the drop zone, a table whose file had a column DEFAULT has a column
\* DEFAULT_FLAG and no column DEFAULT
C15_DefaultColumnRenamed ==
    (op.name \in FileImports /\ "success" \in report.shown /\ "DEFAULT" \in file.columns)
        => ("DEFAULT_FLAG" \in columns /\ "DEFAULT" \notin columns)

\* C16: whenever connector.loadFile is called, its options follow the file
\* extension: .pipe and .psv give read_csv with delimiter '|', .tsv gives
\* read_csv with a tab, a .txt file whose text was read gives read_csv with
\* the first of pipe, tab, comma present on its first line (the delimiter is
\* left to auto-detection when none is), and .csv, .parquet and .json set
\* neither a method nor a delimiter
C16_LoadOptionsByExtension ==
    (op.name \in FileImports /\ lastLoad.called) =>
        LET fileExtension == FileExtension(file.name)
            firstLine == FirstLine(file.text)
            Has(ch) == \E i \in DOMAIN firstLine : firstLine[i] = ch
            found == IF Has("|") THEN "|"
                     ELSE IF Has("\t") THEN "\t"
                     ELSE IF Has(",") THEN ","
                     ELSE "unset"
        IN  /\ fileExtension \in {"pipe", "psv"} =>
                lastLoad.options = [method |-> "read_csv", delim |-> "|"]
            /\ fileExtension = "tsv" =>
                lastLoad.options = [method |-> "read_csv", delim |-> "\t"]
            /\ (fileExtension = "txt" /\ lastLoad.textRead = "ok") =>
                lastLoad.options = [method |-> "read_csv", delim |-> found]
            /\ fileExtension \in {"csv", "parquet", "json"} =>
                lastLoad.options = [method |-> "unset", delim |-> "unset"]

\* a dropped .TXT file whose only pipe is on its second line was loaded with
\* read_csv and no explicit delimiter
C16_Witness ==
    /\ op = [name |-> "fileDrop", ok |-> TRUE]
    /\ file.name = <<"data", "TXT">>
    /\ file.text = <<"\n", "|">>
    /\ lastLoad = [textRead |-> "ok", called |-> TRUE,
                   options |-> [method |-> "read_csv", delim |-> "unset"]]

\* C17: when reading the text of a .txt file fails, the import (file picker
\* or drop zone) still calls connector.loadFile, with read_csv and
\* auto-detection
C17_TextFailureFallsBack ==
    (op.name \in FileImports /\ lastLoad.textRead = "failed")
        => (lastLoad.called /\ lastLoad.options = ReadCsv("unset"))

(***************************************************************************)
(* The whole-database download after database files were imported.         *)
(***************************************************************************)
ArchiveNext ==
    \/ LoadDefaultDataset
    \/ CheckDatasetVersion
    \/ HandleImport
    \/ ExportDatabase

SpecArchive == DataInit /\ [][ArchiveNext]_vars

\* C18: a whole-database export that ran without any error has put every
\* table of every schema, main and imported, in the ZIP
C18_AllSchemasExported ==
    (op = [name |-> "exportDatabase", ok |-> TRUE] /\ ~report.raised)
        => \A t \in catalog : [schema |-> t.schema, tableName |-> t.tableName] \in archive

(***************************************************************************)
(* The model of a session.  In this part a session record carries, besides *)
(* the fields the store logic reads, its modelProvider, model and baseUrl. *)
(***************************************************************************)
DefaultModel == [provider |-> "google", value |-> "gemini-flash-latest"]

\* LLM_MODELS flattened to {provider, value}, one more model for google
ModelOptions ==
    {DefaultModel,
     [provider |-> "google", value |-> "gemini-2.5-pro"],
     [provider |-> "openai", value |-> "gpt-4.1"],
     [provider |-> "anthropic", value |-> "claude-sonnet-4-5-20250929"]}

\* PROVIDER_DEFAULT_BASE_URLS
ProviderDefaultBaseUrl(provider) ==
    CASE provider = "openai" -> "/api/openai-proxy"
      [] provider = "anthropic" -> "https://api.anthropic.com/v1"
      [] provider = "google" -> "https://generativelanguage.googleapis.com/v1beta"

\* ai.getCurrentSession(): the session under currentSessionId, if there is one
HasCurrentSession == currentSessionId \in Ids(sessions)

CurrentIndex == CHOOSE i \in 1..Len(sessions) : sessions[i].id = currentSessionId

SetAiModelOnly(ss, i, option, baseUrl) ==
    [ss EXCEPT ![i].modelProvider = option.provider,
               ![i].model = option.value]

\* ai.setAiModel(provider, model) followed by ai.setBaseUrl(baseUrl), both on
\* the store's current session
SetAiModelAndBaseUrl(ss, i, option, baseUrl) ==
    [ss EXCEPT ![i].modelProvider = option.provider,
               ![i].model = option.value,
               ![i].baseUrl = baseUrl]

\* the provider and model originalCreateSession(name, undefined, undefined)
\* gives a session: the slice's own default or those of the current session
CreatedModels ==
    {[provider |-> "openai", value |-> "gpt-4.1"]}
    \cup (IF HasCurrentSession
          THEN {[provider |-> sessions[CurrentIndex].modelProvider,
                 value |-> sessions[CurrentIndex].model]}
          ELSE {})

\* createSession(): the new session, then setBaseUrl for `modelProvider || 'google'`
CreatedSession(k, created0) ==
    [id |-> NewSession(k).id,
     analysisResults |-> NewSession(k).analysisResults,
     createdAt |-> NewSession(k).createdAt,
     modelProvider |-> created0.provider,
     model |-> created0.value,
     baseUrl |-> ProviderDefaultBaseUrl("google")]

\* the user's handlers run after the effects of the last render
EffectPending == HasCurrentSession /\ currentSessionId \notin processedSessionIds

ModelStep ==
    UNCHANGED <<engineVars, cacheVars, boot, storedVersion, stamp, op, report, panel,
                fileVars, archive, proxyVars>>

\* the first commit of CustomSessionControls: the effect that creates a
\* session, then the default-model effect, whose closure still holds the
\* rehydrated current session while setAiModel acts on the new one
MountEffects ==
    /\ phase = "mount"
    /\ \E created0 \in CreatedModels :
        LET new == CreatedSession(created + 1, created0)
            stale == HasCurrentSession
            overrides == stale /\ sessions[CurrentIndex].model # DefaultModel.value
            ss == <<new>> \o sessions
        IN  /\ sessions' = IF overrides
                           THEN SetAiModelAndBaseUrl(ss, 1, DefaultModel,
                                    ProviderDefaultBaseUrl("google"))
                           ELSE ss
            /\ processedSessionIds' = IF stale THEN {currentSessionId} ELSE {}
            /\ currentSessionId' = new.id
    /\ created' = created + 1
    /\ phase' = "ready"
    /\ Persist(sessions', currentSessionId')
    /\ UNCHANGED userModel
    /\ ModelStep

\* the "New Session" menu item
ClickNewSession ==
    /\ phase = "ready"
    /\ ~EffectPending
    /\ created < MaxCreated
    /\ \E created0 \in CreatedModels :
        /\ sessions' = <<CreatedSession(created + 1, created0)>> \o sessions
        /\ currentSessionId' = NewSession(created + 1).id
    /\ created' = created + 1
    /\ Persist(sessions', currentSessionId')
    /\ UNCHANGED <<phase, modelVars>>
    /\ ModelStep

\* the effect on [currentSession, setAiModel, processedSessionIds, setBaseUrl]
DefaultModelEffect ==
    /\ phase = "ready"
    /\ EffectPending
    /\ sessions' = IF sessions[CurrentIndex].model # DefaultModel.value
                   THEN SetAiModelAndBaseUrl(sessions, CurrentIndex, DefaultModel,
                            ProviderDefaultBaseUrl("google"))
                   ELSE sessions
    /\ processedSessionIds' = processedSessionIds \cup {currentSessionId}
    /\ Persist(sessions', currentSessionId)
    /\ UNCHANGED <<currentSessionId, phase, created, userModel>>
    /\ ModelStep

\* ModelSelector handleModelChange(value)
HandleModelChange ==
    /\ phase = "ready"
    /\ HasCurrentSession
    /\ ~EffectPending
    /\ \E selectedModel \in ModelOptions :
        /\ selectedModel.value # sessions[CurrentIndex].model
        /\ sessions' = SetAiModelAndBaseUrl(sessions, CurrentIndex, selectedModel,
                            ProviderDefaultBaseUrl(selectedModel.provider))
        /\ userModel' = {u \in userModel : u.id # currentSessionId}
                        \cup {[id |-> currentSessionId, model |-> selectedModel.value]}
    /\ Persist(sessions', currentSessionId)
    /\ UNCHANGED <<currentSessionId, phase, created, processedSessionIds>>
    /\ ModelStep

\* a session of the history menu is clicked
SelectSession == ~EffectPending /\ SwitchSession

\* the page is reloaded: the component state is lost with the store
ReloadPage ==
    /\ phase = "ready"
    /\ ~EffectPending
    /\ created < MaxCreated
    /\ phase' = "init"
    /\ sessions' = <<>>
    /\ currentSessionId' = ""
    /\ saved' = FALSE
    /\ processedSessionIds' = {}
    /\ UNCHANGED <<storage, created, userModel>>
    /\ ModelStep

ModelInit == StoreIdle /\ DataIdle

ModelNext ==
    \/ Rehydrate
    \/ MountEffects
    \/ ClickNewSession
    \/ DefaultModelEffect
    \/ HandleModelChange
    \/ SelectSession
    \/ AddAnalysisResult
    \/ ReloadPage

SpecModel == ModelInit /\ [][ModelNext]_vars

\* C19: the default-model effect leaves the model the user selected in a
\* session alone, whatever page loads, creations, switches and selections
\* came before: every session has the model that was last selected in it
C19_UserSelectionKept ==
    \A i \in 1..Len(sessions) : \A u \in userModel :
        u.id = sessions[i].id => sessions[i].model = u.model

\* C20 (as stated): after any creations, selections and runs of the effect,
\* the base URL of the current session is the default base URL of the
\* provider of its model
C20_BaseUrlMatchesProvider ==
    HasCurrentSession =>
        sessions[CurrentIndex].baseUrl
            = ProviderDefaultBaseUrl(sessions[CurrentIndex].modelProvider)

\* C20 (amended): once the default-model effect has run for the current
\* session, its base URL is the default base URL of the provider of its model
C20_ProcessedSessionBaseUrl ==
    (HasCurrentSession /\ ~EffectPending) =>
        sessions[CurrentIndex].baseUrl
            = ProviderDefaultBaseUrl(sessions[CurrentIndex].modelProvider)

\* the user has selected the anthropic model in a processed session
C20_Witness ==
    /\ HasCurrentSession /\ ~EffectPending
    /\ [id |-> currentSessionId, model |-> "claude-sonnet-4-5-20250929"] \in userModel
    /\ sessions[CurrentIndex].modelProvider = "anthropic"
    /\ sessions[CurrentIndex].baseUrl = "https://api.anthropic.com/v1"

(***************************************************************************)
(* The OpenAI proxy: a serverless function that answers one request per    *)
(* invocation and keeps nothing between invocations.                       *)
(***************************************************************************)
Methods == {"GET", "HEAD", "POST", "PUT", "DELETE", "OPTIONS"}

\* req.headers.authorization: undefined ("absent"), empty, or a bearer token
Authorizations == {"absent", "", "Bearer a", "Bearer b"}

\* req.query.path: undefined, a string, or an array of segments
PathParams ==
    {NoPath,
     [kind |-> "string", string |-> "chat/completions", array |-> <<>>],
     [kind |-> "string", string |-> "models", array |-> <<>>],
     [kind |-> "array", string |-> "", array |-> <<"chat", "completions">>]}

\* what api.openai.com does with a forwarded request: fetch rejects, or a
\* response arrives that streams, parses as JSON, or fails to parse
UpstreamOutcomes ==
    {[kind |-> "throws", status |-> 0]}
    \cup {[kind |-> k, status |-> st] :
            k \in {"stream", "json", "badJson"}, st \in {200, 401, 405}}

AnyHeader(authHeader) == TRUE

\* !authHeader is false
Truthy(authHeader) == authHeader \notin {"absent", ""}

\* pathParam.join('/')
RECURSIVE Join(_)
Join(array) ==
    IF array = <<>> THEN ""
    ELSE IF Len(array) = 1 THEN array[1]
    ELSE array[1] \o "/" \o Join(Tail(array))

\* subPath: '/chat/completions' unless the catch-all route gave a path
SubPath(pathParam) ==
    IF pathParam.kind = "array" THEN "/" \o Join(pathParam.array)
    ELSE IF pathParam.kind = "string" /\ pathParam.string # "" THEN "/" \o pathParam.string
    ELSE "/chat/completions"

TargetUrl(pathParam) == "https://api.openai.com/v1" \o SubPath(pathParam)

\* the answer to a forwarded request: a stream is piped under the default
\* status 200, a JSON body is relayed with the upstream status, and whatever
\* throws inside the try block is answered 500
Relay(upstream) ==
    CASE upstream.kind = "stream" -> [status |-> 200, body |-> "stream"]
      [] upstream.kind = "json" -> [status |-> upstream.status, body |-> "json"]
      [] OTHER -> [status |-> 500, body |-> "Proxy error"]

\* handler(req, res)
Handler ==
    /\ \E method \in Methods, authorization \in Authorizations, path \in PathParams :
       \E upstream \in UpstreamOutcomes :
        LET forwards == method = "POST" /\ Truthy(authorization)
        IN  /\ ~forwards => upstream.kind = "throws"
            /\ req' = [method |-> method, authorization |-> authorization, path |-> path]
            /\ res' = IF method # "POST"
                      THEN [status |-> 405, body |-> "Method not allowed. Only POST is supported."]
                      ELSE IF ~Truthy(authorization)
                      THEN [status |-> 401, body |-> "Missing Authorization header"]
                      ELSE Relay(upstream)
            /\ fetched' = IF forwards
                          THEN {[url |-> TargetUrl(path), authorization |-> authorization]}
                          ELSE {}
    /\ UNCHANGED <<engineVars, cacheVars, boot, storedVersion, stamp, op, report, panel,
                   fileVars, archive, modelVars, storeVars>>

ProxyInit == StoreIdle /\ DataIdle

ProxyNext == Handler

SpecProxy == ProxyInit /\ [][ProxyNext]_vars

\* C21: the proxy calls upstream only for a POST that carries an
\* Authorization header; any other method is answered 405 and a POST without
\* an Authorization header is answered 401, both without an upstream call
C21_UpstreamOnlyForAuthorizedPost ==
    req # NoRequest =>
        /\ fetched # {} => (req.method = "POST" /\ req.authorization # "absent")
        /\ req.method # "POST" => (res.status = 405 /\ fetched = {})
        /\ (req.method = "POST" /\ req.authorization = "absent")
                => (res.status = 401 /\ fetched = {})

\* a POST with a bearer token and an array path was forwarded to
\* /v1/chat/completions, and the 401 of the upstream was relayed
C21_Witness ==
    /\ req.method = "POST" /\ req.authorization = "Bearer a" /\ req.path.kind = "array"
    /\ fetched = {[url |-> "https://api.openai.com/v1/chat/completions",
                   authorization |-> "Bearer a"]}
    /\ res = [status |-> 401, body |-> "json"]

====
